---- MODULE Spec2Model ----
(***************************************************************************)
(* Intersubject correlation (isc) and intersubject functional correlation  *)
(* (isfc) of brainiak/isfc.py as a state machine.                          *)
(*                                                                         *)
(* Arrays are records [dtype, val].  The data tensor D holds small         *)
(* integers, indexed [voxel][time][subject] from 0 as in the source.       *)
(* Correlations are fixed-point numbers with FracBits fractional bits      *)
(* (Scale stands for 1.0), or NaN.  Every such number is representable in  *)
(* float16, float32 and float64, so a cast changes the dtype of an array   *)
(* and leaves these values as they are.                                    *)
(***************************************************************************)
EXTENDS Integers, Sequences, FiniteSets, TLC

\* ---------------------------------------------------------------- bounds
MaxVox == 2
MaxSubj == 3
MaxTime == 3
MaxPerm == 1
MaxData == 2
FracBits == 8

Scale == 2 ^ FracBits
NaN == 0 - (4 * Scale)

FloatTypes == {"float16", "float32", "float64"}
OtherTypes == {"longdouble"}

Idx(n) == 0 .. (n - 1)

\* ------------------------------------------------------ numeric helpers
RECURSIVE SumOver(_, _)
SumOver(f, S) ==
    IF S = {} THEN 0
    ELSE LET x == CHOOSE y \in S : TRUE IN f[x] + SumOver(f, S \ {x})

HasNaN(f) == \E x \in DOMAIN f : f[x] = NaN

\* np.mean of a vector of statistics: NaN propagates.
MeanFix(f) ==
    IF DOMAIN f = {} \/ HasNaN(f) THEN NaN
    ELSE SumOver(f, DOMAIN f) \div Cardinality(DOMAIN f)

\* np.max / np.min of a non-empty set of statistics: NaN propagates.
MaxFix(S) == IF NaN \in S THEN NaN ELSE CHOOSE x \in S : \A y \in S : y <= x
MinFix(S) == IF NaN \in S THEN NaN ELSE CHOOSE x \in S : \A y \in S : x <= y

\* The largest k in lo..hi with k^2 * den <= Scale^2 * num, by bisection; lo
\* is known to satisfy the inequality.
RECURSIVE Bisect(_, _, _, _)
Bisect(lo, hi, num, den) ==
    IF lo >= hi THEN lo
    ELSE LET mid == (lo + hi + 1) \div 2
         IN  IF mid * mid * den <= Scale * Scale * num
             THEN Bisect(mid, hi, num, den)
             ELSE Bisect(lo, mid - 1, num, den)

\* floor(Scale * sqrt(num / den)), for 0 <= num <= den and den > 0.
FixSqrtRatio(num, den) == Bisect(0, Scale, num, den)

\* Pearson correlation of x = xnum / xden (a row of means, all entries over
\* the common count xden) with the integer row y, both over the same time
\* axis.  NaN when the mean is over no subject or a row has zero variance.
\* The common denominator cancels between covariance and deviation.
Pearson(xnum, xden, y) ==
    LET T == DOMAIN y
        n == Cardinality(T)
        sx == SumOver(xnum, T)
        sy == SumOver(y, T)
        sxy == SumOver([t \in T |-> xnum[t] * y[t]], T)
        sxx == SumOver([t \in T |-> xnum[t] * xnum[t]], T)
        syy == SumOver([t \in T |-> y[t] * y[t]], T)
        cov == n * sxy - sx * sy
        vx == n * sxx - sx * sx
        vy == n * syy - sy * sy
    IN  IF xden = 0 \/ vx = 0 \/ vy = 0 THEN NaN
        ELSE LET r == FixSqrtRatio(cov * cov, vx * vy)
             IN  IF cov < 0 THEN 0 - r ELSE r

\* ----------------------------------------------------------- input data
\* The d-th sample tensor of shape <<nv, MaxTime, ns>>, values in 0..2,
\* indexed by <<voxel, time, subject>>.
SampleD(d, nv, ns) ==
    [x \in Idx(nv) \X Idx(MaxTime) \X Idx(ns) |->
        LET v == x[1]
            t == x[2]
            s == x[3]
        IN  (((d + 1) * (t + 1) * (s + 2) + (v + 1) * (t * t + s) + d * v * s) % 7) % 3]

Seed(n) == [kind |-> "seed", val |-> n]
GenObj == [kind |-> "gen", val |-> 0]
NoRs == [kind |-> "none", val |-> 0]
RandomStates == {Seed(0), GenObj}

None == [dtype |-> "none", shape |-> <<>>, val |-> <<>>]
NoGroup == [dtype |-> "none", num |-> <<>>, den |-> 0]
NoArgs ==
    [fn |-> "none", D |-> None, collapse_subj |-> FALSE, return_p |-> FALSE,
     num_perm |-> 0, two_sided |-> FALSE, random_state |-> NoRs,
     float_type |-> "none"]
NoResult == [stat |-> None, has_p |-> FALSE, p |-> None]

\* ------------------------------------------------------------ the state
VARIABLES
    pc,            \* "idle", "setup", "loop", "finish", "returned", "raised"
    args,          \* the arguments of the call in progress, as the caller gave them
    D,             \* the local D: the data tensor of the current round
    n_vox, n_subj, n_perm,
    max_null, min_null,
    ISC, ISFC,     \* the real statistic array of isc / isfc
    p, loo_subj,   \* loop indices
    tmp_ISC, tmp_ISFC, group,
    random_state,  \* the local random_state
    gen,           \* state of the caller's RandomState object
    result, error,
    ncalls, prev,  \* calls made so far, and the outcome of the previous call
    genAtCall,     \* gen when the call in progress began
    hist           \* what the call in progress did so far, in order

vars ==
    <<pc, args, D, n_vox, n_subj, n_perm, max_null, min_null, ISC, ISFC, p,
      loo_subj, tmp_ISC, tmp_ISFC, group, random_state, gen, result, error,
      ncalls, prev, genAtCall, hist>>

\* ------------------------------------------------------- array helpers
Zeros(shape, ft) ==
    [dtype |-> ft, shape |-> shape,
     val |-> IF Len(shape) = 1 THEN [x \in {<<i>> : i \in Idx(shape[1])} |-> 0]
             ELSE IF Len(shape) = 2
                  THEN [x \in Idx(shape[1]) \X Idx(shape[2]) |-> 0]
                  ELSE [x \in Idx(shape[1]) \X Idx(shape[2]) \X Idx(shape[3]) |-> 0]]

\* a.astype(ft)
AsType(a, ft) == [a EXCEPT !.dtype = ft]

\* The function f with f[k] set to v, k added to its domain when absent.
Put(f, k, v) == [x \in DOMAIN f \cup {k} |-> IF x = k THEN v ELSE f[x]]

\* np.arange(n_subj) != loo_subj: the subjects the group average is over.
LooMask_all(ns, loo) == Idx(ns)
LooMask(ns, loo) == {s \in Idx(ns) : s # loo}

\* np.mean(D[:, :, mask], axis=2): the mean keeps the dtype of D; every entry is
\* num / den with den the number of subjects averaged.
GroupMean(Dt, mask) ==
    [dtype |-> Dt.dtype,
     num |-> [x \in Idx(Dt.shape[1]) \X Idx(Dt.shape[2]) |->
                 SumOver([s \in mask |-> Dt.val[<<x[1], x[2], s>>]], mask)],
     den |-> Cardinality(mask)]

\* D[:, :, loo_subj]
Slice(Dt, loo) ==
    [x \in Idx(Dt.shape[1]) \X Idx(Dt.shape[2]) |-> Dt.val[<<x[1], x[2], loo>>]]

Row(m, v, nt) == [t \in Idx(nt) |-> m[<<v, t>>]]

\* if p == 0
IsRealRound_null(q) == q # 0
IsRealRound(q) == q = 0

\* ------------------------------------------------- external collaborators
\* A random generator is a state in 0..15 stepped by a full-period linear
\* congruence; RandomState(seed) starts one from the seed.
Seeded(n) == (7 * n + 1) % 16
Lcg(x) == (5 * x + 3) % 16

RECURSIVE LcgN(_, _)
LcgN(x, i) == IF i = 0 THEN x ELSE LcgN(Lcg(x), i - 1)

\* phase_randomize(D, random_state): a new tensor of the same shape and dtype
\* whose every <<voxel, subject>> time series has the power spectrum of the
\* input's and randomly drawn phases: here a circular shift along time by a
\* drawn amount, one draw per series.  An integer seed builds a fresh
\* generator on every call; a generator object is drawn from and advanced.
\* The input is not changed.
PhaseRandomize(Dt, rs, g) ==
    LET nv == Dt.shape[1]
        nt == Dt.shape[2]
        ns == Dt.shape[3]
        start == IF rs.kind = "seed" THEN Seeded(rs.val) ELSE g
        shift(v, s) == LcgN(start, v * ns + s) % nt
    IN  [D |-> [Dt EXCEPT !.val =
                   [x \in DOMAIN Dt.val |->
                       Dt.val[<<x[1], (x[2] + shift(x[1], x[3])) % nt, x[3]>>]]],
         g |-> IF rs.kind = "gen" THEN LcgN(start, nv * ns) ELSE g]

\* compute_correlation(A, B): entry <<i, j>> is the Pearson correlation of row
\* i of A (here a matrix of means num / den) with row j of B.
ComputeCorrelation(anum, aden, b, nv, nt) ==
    [dtype |-> "float32", shape |-> <<nv, nv>>,
     val |-> [x \in Idx(nv) \X Idx(nv) |->
                 Pearson(Row(anum, x[1], nt), aden, Row(b, x[2], nt))]]

\* p_from_null(X, two_sided, max_null_input, min_null_input): elementwise over
\* X; one-sided, the fraction of max_null at or above the observed value;
\* two-sided, twice the smaller tail, at most 1.  In fixed point.
PFromNull(X, two_sided, maxn, minn) ==
    LET K == DOMAIN maxn.val
        n == Cardinality(K)
        above(o) == Cardinality({k \in K : maxn.val[k] >= o})
        below(o) == Cardinality({k \in K : minn.val[k] <= o})
        tail(o) == IF above(o) <= below(o) THEN above(o) ELSE below(o)
        frac(c) == IF 2 * c >= n THEN Scale ELSE (2 * c * Scale) \div n
    IN  [X EXCEPT !.val =
            [x \in DOMAIN X.val |->
                IF n = 0 \/ X.val[x] = NaN \/ HasNaN(maxn.val) \/ HasNaN(minn.val)
                THEN NaN
                ELSE IF two_sided THEN frac(tail(X.val[x]))
                     ELSE (above(X.val[x]) * Scale) \div n]]

\* ------------------------------------------------------ steps of the code
\* np.empty(n_subj, num_perm).astype(float_type): the second positional
\* parameter of np.empty is the dtype, and an integer is no dtype, so the
\* allocation raises TypeError whatever n_subj and num_perm are.
EmptyNull(ns, np, ft) == [ok |-> FALSE, error |-> "TypeError", arr |-> None]

\* One leave-one-out pass of isc: the group average, and the per-voxel
\* correlations tmp_ISC.
LooISC(Dt, ns, loo, ft) ==
    LET nv == Dt.shape[1]
        nt == Dt.shape[2]
        grp == GroupMean(Dt, LooMask(ns, loo))
        subj == Slice(Dt, loo)
        zero == Zeros(<<nv>>, ft)
    IN  [group |-> grp,
         tmp |-> [zero EXCEPT !.val =
                     [x \in DOMAIN zero.val |->
                         Pearson(Row(grp.num, x[1], nt), grp.den,
                                 Row(subj, x[1], nt))]]]

\* (tmp_ISFC + tmp_ISFC.T) / 2
Symmetrize_none(m) == m
Symmetrize(m) ==
    [m EXCEPT !.val =
        [x \in DOMAIN m.val |->
            IF m.val[x] = NaN \/ m.val[<<x[2], x[1]>>] = NaN THEN NaN
            ELSE (m.val[x] + m.val[<<x[2], x[1]>>]) \div 2]]

\* One leave-one-out pass of isfc: the group average, and the symmetrized
\* voxel-by-voxel correlations tmp_ISFC.
LooISFC(Dt, ns, loo, ft) ==
    LET nv == Dt.shape[1]
        nt == Dt.shape[2]
        grp == GroupMean(Dt, LooMask(ns, loo))
        subj == Slice(Dt, loo)
    IN  [group |-> grp,
         tmp |-> Symmetrize(AsType(
                     ComputeCorrelation(grp.num, grp.den, subj, nv, nt), ft))]

\* D = phase_randomize(D, random_state): the rebinding of D at the end of a
\* round, with the random_state it passed.
Randomized_skip(Dt, rs, g) == [D |-> Dt, g |-> g, rs |-> rs]
Randomized_reseed(Dt, rs, g) ==
    [D |-> PhaseRandomize(Dt, Seed(rs.val + 1), g).D, g |-> g,
     rs |-> Seed(rs.val + 1)]
Randomized(Dt, rs, g) ==
    [D |-> PhaseRandomize(Dt, rs, g).D, g |-> PhaseRandomize(Dt, rs, g).g,
     rs |-> rs]

\* np.mean(a, axis=last): the average over the subject axis; the dtype stays.
CollapseSubj(a, ns) ==
    LET k == Len(a.shape) - 1
        lead == {SubSeq(x, 1, k) : x \in DOMAIN a.val}
    IN  [dtype |-> a.dtype, shape |-> SubSeq(a.shape, 1, k),
         val |-> [y \in lead |->
                     MeanFix([s \in Idx(ns) |-> a.val[y \o <<s>>]])]]

\* np.max(max_null, axis=0): over the subjects, for each permutation.
ReduceMax(a, ns, np) ==
    [dtype |-> a.dtype, shape |-> <<np>>,
     val |-> [x \in {<<k>> : k \in Idx(np)} |->
                 MaxFix({a.val[<<s, x[1]>>] : s \in Idx(ns)})]]

\* np.min(min_null, axis=0): over the subjects, for each permutation.
ReduceMin(a, ns, np) ==
    [dtype |-> a.dtype, shape |-> <<np>>,
     val |-> [x \in {<<k>> : k \in Idx(np)} |->
                 MinFix({a.val[<<s, x[1]>>] : s \in Idx(ns)})]]

\* ---------------------------------------------------------------- Init
NoPrev == [args |-> NoArgs, result |-> NoResult, error |-> "none",
           gen_before |-> 0, gen_after |-> 0]

Init ==
    /\ pc = "idle"
    /\ args = NoArgs
    /\ D = None
    /\ n_vox = 0
    /\ n_subj = 0
    /\ n_perm = 0
    /\ max_null = None
    /\ min_null = None
    /\ ISC = None
    /\ ISFC = None
    /\ p = 0
    /\ loo_subj = 0
    /\ tmp_ISC = None
    /\ tmp_ISFC = None
    /\ group = NoGroup
    /\ random_state = NoRs
    /\ gen = Seeded(0)
    /\ result = NoResult
    /\ error = "none"
    /\ ncalls = 0
    /\ prev = NoPrev
    /\ genAtCall = Seeded(0)
    /\ hist = <<>>

\* ------------------------------------------------------------- the calls
\* Entry of isc / isfc: the parameters are bound and the shape of D is read.
Enter(a) ==
    /\ pc' = "setup"
    /\ args' = a
    /\ D' = a.D
    /\ n_vox' = a.D.shape[1]
    /\ n_subj' = a.D.shape[3]
    /\ random_state' = a.random_state
    /\ genAtCall' = gen
    /\ hist' = <<>>
    /\ result' = NoResult
    /\ error' = "none"
    /\ UNCHANGED <<n_perm, max_null, min_null, ISC, ISFC, p, loo_subj, tmp_ISC,
                   tmp_ISFC, group, gen, ncalls, prev>>

\* The caller's first call, with any arguments: D is a sample tensor of
\* float32 or float64; num_perm may be negative and float_type outside the
\* documented three; two_sided is left at its default unless p values are
\* asked for.
Call ==
    /\ pc = "idle"
    /\ ncalls = 0
    /\ \E fn \in {"isc", "isfc"}, nv \in 1 .. MaxVox, ns \in 1 .. MaxSubj,
          d \in 0 .. MaxData, dt \in {"float32", "float64"},
          cs \in BOOLEAN, rp \in BOOLEAN, np \in (0 - 1) .. MaxPerm,
          ts \in BOOLEAN, rs \in RandomStates,
          ft \in FloatTypes \cup OtherTypes :
        /\ ts => rp
        /\ Enter([fn |-> fn,
                  D |-> [dtype |-> dt, shape |-> <<nv, MaxTime, ns>>,
                         val |-> SampleD(d, nv, ns)],
                  collapse_subj |-> cs, return_p |-> rp, num_perm |-> np,
                  two_sided |-> ts, random_state |-> rs, float_type |-> ft])

\* The caller repeats its call once: the same arguments, the same generator
\* object.
CallAgain ==
    /\ pc = "idle"
    /\ ncalls = 1
    /\ Enter(prev.args)

\* The call is over: its locals are gone, the caller keeps the outcome.
Return ==
    /\ pc \in {"returned", "raised"}
    /\ pc' = "idle"
    /\ prev' = [args |-> args, result |-> result, error |-> error,
                gen_before |-> genAtCall, gen_after |-> gen]
    /\ ncalls' = ncalls + 1
    /\ args' = NoArgs
    /\ D' = None
    /\ n_vox' = 0
    /\ n_subj' = 0
    /\ n_perm' = 0
    /\ max_null' = None
    /\ min_null' = None
    /\ ISC' = None
    /\ ISFC' = None
    /\ p' = 0
    /\ loo_subj' = 0
    /\ tmp_ISC' = None
    /\ tmp_ISFC' = None
    /\ group' = NoGroup
    /\ random_state' = NoRs
    /\ result' = NoResult
    /\ error' = "none"
    /\ hist' = <<>>
    /\ UNCHANGED <<gen, genAtCall>>

\* ------------------------------------------------------------------ isc
\* if return_p: ... else: n_perm = 0; ISC = np.zeros(...); the loops begin.
IscSetup ==
    /\ pc = "setup"
    /\ args.fn = "isc"
    /\ LET a == EmptyNull(n_subj, args.num_perm, args.float_type)
           np == IF args.return_p THEN args.num_perm ELSE 0
       IN  IF args.return_p /\ ~a.ok
           THEN /\ pc' = "raised"
                /\ error' = a.error
                /\ UNCHANGED <<n_perm, max_null, min_null, ISC, p, loo_subj>>
           ELSE /\ n_perm' = np
                /\ max_null' = IF args.return_p THEN a.arr ELSE max_null
                /\ min_null' = IF args.return_p THEN a.arr ELSE min_null
                /\ ISC' = Zeros(<<n_vox, n_subj>>, args.float_type)
                /\ p' = 0
                /\ loo_subj' = 0
                /\ pc' = IF np + 1 > 0 THEN "loop" ELSE "finish"
                /\ UNCHANGED error
    /\ UNCHANGED <<args, D, n_vox, n_subj, ISFC, tmp_ISC, tmp_ISFC, group,
                   random_state, gen, result, ncalls, prev, genAtCall, hist>>

\* The body of "for loo_subj in range(n_subj)".
IscLoo ==
    /\ pc = "loop"
    /\ args.fn = "isc"
    /\ loo_subj < n_subj
    /\ LET r == LooISC(D, n_subj, loo_subj, args.float_type)
           vals == {r.tmp.val[x] : x \in DOMAIN r.tmp.val}
       IN  /\ tmp_ISC' = r.tmp
           /\ group' = r.group
           /\ IF IsRealRound(p)
              THEN /\ ISC' = [ISC EXCEPT !.val =
                                 [x \in DOMAIN @ |->
                                     IF x[2] = loo_subj THEN r.tmp.val[<<x[1]>>]
                                     ELSE @[x]]]
                   /\ UNCHANGED <<max_null, min_null>>
              ELSE /\ max_null' = [max_null EXCEPT !.val =
                                      Put(@, <<loo_subj, p - 1>>, MaxFix(vals))]
                   /\ min_null' = [min_null EXCEPT !.val =
                                      Put(@, <<loo_subj, p - 1>>, MinFix(vals))]
                   /\ UNCHANGED ISC
           /\ hist' = Append(hist,
                 [op |-> "loo", p |-> p, loo |-> loo_subj, data |-> D.val,
                  target |-> IF IsRealRound(p) THEN "real" ELSE "null",
                  rs |-> NoRs])
    /\ loo_subj' = loo_subj + 1
    /\ UNCHANGED <<pc, args, D, n_vox, n_subj, n_perm, ISFC, p, tmp_ISFC,
                   random_state, gen, result, error, ncalls, prev, genAtCall>>

\* D = phase_randomize(D, random_state) at the end of round p, then the next
\* p of range(n_perm + 1), if any.  Past the last round p counts the rounds
\* done.
IscRandomize ==
    /\ pc = "loop"
    /\ args.fn = "isc"
    /\ loo_subj >= n_subj
    /\ LET r == Randomized(D, random_state, gen)
       IN  /\ D' = r.D
           /\ gen' = r.g
           /\ hist' = Append(hist,
                 [op |-> "rand", p |-> p, loo |-> 0 - 1, data |-> D.val,
                  target |-> "none", rs |-> r.rs])
    /\ p' = p + 1
    /\ loo_subj' = 0
    /\ pc' = IF p + 1 <= n_perm THEN "loop" ELSE "finish"
    /\ UNCHANGED <<args, n_vox, n_subj, n_perm, max_null, min_null, ISC, ISFC,
                   tmp_ISC, tmp_ISFC, group, random_state, result, error,
                   ncalls, prev, genAtCall>>

\* if collapse_subj: ...; if return_p: ... return ISC, p; else: return ISC
IscFinish ==
    /\ pc = "finish"
    /\ args.fn = "isc"
    /\ LET out == IF args.collapse_subj THEN CollapseSubj(ISC, n_subj) ELSE ISC
           maxn == ReduceMax(max_null, n_subj, args.num_perm)
           minn == ReduceMin(min_null, n_subj, args.num_perm)
       IN  /\ ISC' = out
           /\ IF args.return_p
              THEN /\ max_null' = maxn
                   /\ min_null' = minn
                   /\ result' = [stat |-> out, has_p |-> TRUE,
                                 p |-> PFromNull(out, args.two_sided, maxn, minn)]
              ELSE /\ result' = [stat |-> out, has_p |-> FALSE, p |-> None]
                   /\ UNCHANGED <<max_null, min_null>>
    /\ pc' = "returned"
    /\ UNCHANGED <<args, D, n_vox, n_subj, n_perm, ISFC, p, loo_subj, tmp_ISC,
                   tmp_ISFC, group, random_state, gen, error, ncalls, prev,
                   genAtCall, hist>>

\* ----------------------------------------------------------------- isfc
\* if return_p: ... else: n_perm = 0; ISFC = np.zeros(...); the loops begin.
IsfcSetup ==
    /\ pc = "setup"
    /\ args.fn = "isfc"
    /\ LET a == EmptyNull(n_subj, args.num_perm, args.float_type)
           np == IF args.return_p THEN args.num_perm ELSE 0
       IN  IF args.return_p /\ ~a.ok
           THEN /\ pc' = "raised"
                /\ error' = a.error
                /\ UNCHANGED <<n_perm, max_null, min_null, ISFC, p, loo_subj>>
           ELSE /\ n_perm' = np
                /\ max_null' = IF args.return_p THEN a.arr ELSE max_null
                /\ min_null' = IF args.return_p THEN a.arr ELSE min_null
                /\ ISFC' = Zeros(<<n_vox, n_vox, n_subj>>, args.float_type)
                /\ p' = 0
                /\ loo_subj' = 0
                /\ pc' = IF np + 1 > 0 THEN "loop" ELSE "finish"
                /\ UNCHANGED error
    /\ UNCHANGED <<args, D, n_vox, n_subj, ISC, tmp_ISC, tmp_ISFC, group,
                   random_state, gen, result, ncalls, prev, genAtCall, hist>>

\* The body of "for loo_subj in range(D.shape[2])".
IsfcLoo ==
    /\ pc = "loop"
    /\ args.fn = "isfc"
    /\ loo_subj < D.shape[3]
    /\ LET r == LooISFC(D, n_subj, loo_subj, args.float_type)
           vals == {r.tmp.val[x] : x \in DOMAIN r.tmp.val}
       IN  /\ tmp_ISFC' = r.tmp
           /\ group' = r.group
           /\ IF IsRealRound(p)
              THEN /\ ISFC' = [ISFC EXCEPT !.val =
                                  [x \in DOMAIN @ |->
                                      IF x[3] = loo_subj
                                      THEN r.tmp.val[<<x[1], x[2]>>]
                                      ELSE @[x]]]
                   /\ UNCHANGED <<max_null, min_null>>
              ELSE /\ max_null' = [max_null EXCEPT !.val =
                                      Put(@, <<loo_subj, p - 1>>, MaxFix(vals))]
                   /\ min_null' = [min_null EXCEPT !.val =
                                      Put(@, <<loo_subj, p - 1>>, MinFix(vals))]
                   /\ UNCHANGED ISFC
           /\ hist' = Append(hist,
                 [op |-> "loo", p |-> p, loo |-> loo_subj, data |-> D.val,
                  target |-> IF IsRealRound(p) THEN "real" ELSE "null",
                  rs |-> NoRs])
    /\ loo_subj' = loo_subj + 1
    /\ UNCHANGED <<pc, args, D, n_vox, n_subj, n_perm, ISC, p, tmp_ISC,
                   random_state, gen, result, error, ncalls, prev, genAtCall>>

\* D = phase_randomize(D, random_state) at the end of round p, then the next
\* p of range(n_perm + 1), if any.
IsfcRandomize ==
    /\ pc = "loop"
    /\ args.fn = "isfc"
    /\ loo_subj >= D.shape[3]
    /\ LET r == Randomized(D, random_state, gen)
       IN  /\ D' = r.D
           /\ gen' = r.g
           /\ hist' = Append(hist,
                 [op |-> "rand", p |-> p, loo |-> 0 - 1, data |-> D.val,
                  target |-> "none", rs |-> r.rs])
    /\ p' = p + 1
    /\ loo_subj' = 0
    /\ pc' = IF p + 1 <= n_perm THEN "loop" ELSE "finish"
    /\ UNCHANGED <<args, n_vox, n_subj, n_perm, max_null, min_null, ISC, ISFC,
                   tmp_ISC, tmp_ISFC, group, random_state, result, error,
                   ncalls, prev, genAtCall>>

\* if collapse_subj: ...; if return_p: ... return ISFC, p; else: return ISFC
IsfcFinish ==
    /\ pc = "finish"
    /\ args.fn = "isfc"
    /\ LET out == IF args.collapse_subj THEN CollapseSubj(ISFC, n_subj) ELSE ISFC
           maxn == ReduceMax(max_null, n_subj, args.num_perm)
           minn == ReduceMin(min_null, n_subj, args.num_perm)
       IN  /\ ISFC' = out
           /\ IF args.return_p
              THEN /\ max_null' = maxn
                   /\ min_null' = minn
                   /\ result' = [stat |-> out, has_p |-> TRUE,
                                 p |-> PFromNull(out, args.two_sided, maxn, minn)]
              ELSE /\ result' = [stat |-> out, has_p |-> FALSE, p |-> None]
                   /\ UNCHANGED <<max_null, min_null>>
    /\ pc' = "returned"
    /\ UNCHANGED <<args, D, n_vox, n_subj, n_perm, ISC, p, loo_subj, tmp_ISC,
                   tmp_ISFC, group, random_state, gen, error, ncalls, prev,
                   genAtCall, hist>>

\* ------------------------------------------------------------------ Spec
Next ==
    \/ Call
    \/ CallAgain
    \/ Return
    \/ IscSetup
    \/ IscLoo
    \/ IscRandomize
    \/ IscFinish
    \/ IsfcSetup
    \/ IsfcLoo
    \/ IsfcRandomize
    \/ IsfcFinish

Spec == Init /\ [][Next]_vars

\* ---------------------------------------------------------------- claims
InCall == pc \in {"setup", "loop", "finish", "returned", "raised"}
Ended == pc \in {"returned", "raised"}

\* The arguments the documentation allows: at least two subjects, a
\* non-negative num_perm, one of the three float types.
ValidArgs ==
    /\ args.D.shape[3] >= 2
    /\ args.num_perm >= 0
    /\ args.float_type \in FloatTypes

\* The original D with the phase randomizer applied k times in sequence, and
\* the generator state after that.
RECURSIVE RandIter(_, _, _, _)
RandIter(Dt, rs, g, k) ==
    IF k <= 0 THEN [D |-> Dt, g |-> g]
    ELSE LET r == RandIter(Dt, rs, g, k - 1) IN PhaseRandomize(r.D, rs, r.g)

\* Pearson correlation of subject s's voxel-i series of tensor Dt with the
\* voxel-j mean over all subjects but s.
OthersCorr(Dt, i, j, s) ==
    LET nt == Dt.shape[2]
        others == Idx(Dt.shape[3]) \ {s}
    IN  Pearson([t \in Idx(nt) |->
                    SumOver([u \in others |-> Dt.val[<<j, t, u>>]], others)],
                Dt.shape[3] - 1,
                [t \in Idx(nt) |-> Dt.val[<<i, t, s>>]])

\* C1: for valid arguments with num_perm >= 1, a call with return_p=True ends
\* by returning (statistic, p), p of the shape of the statistic with every
\* entry in [0, 1]; it does not raise.
C1_ReturnsStatisticAndP ==
    (Ended /\ args.return_p /\ ValidArgs /\ args.num_perm >= 1)
        => /\ pc = "returned"
           /\ result.has_p
           /\ DOMAIN result.p.val = DOMAIN result.stat.val
           /\ \A x \in DOMAIN result.p.val :
                  result.p.val[x] >= 0 /\ result.p.val[x] <= Scale

\* C2: isc with return_p=False returns, uncollapsed, at [v, s] the Pearson
\* correlation of subject s's voxel-v series of the original D with the
\* voxel-v mean over exactly the other subjects; collapsed, at [v] the mean
\* over s of those values.
C2_IscIsLeaveOneOut ==
    (pc = "returned" /\ args.fn = "isc" /\ ~args.return_p)
        => LET nv == args.D.shape[1]
               ns == args.D.shape[3]
           IN  IF args.collapse_subj
               THEN result.stat.val =
                        [x \in {<<v>> : v \in Idx(nv)} |->
                            MeanFix([s \in Idx(ns) |->
                                        OthersCorr(args.D, x[1], x[1], s)])]
               ELSE result.stat.val =
                        [x \in Idx(nv) \X Idx(ns) |->
                            OthersCorr(args.D, x[1], x[1], x[2])]

C2_Witness ==
    /\ pc = "returned"
    /\ args.fn = "isc"
    /\ ~args.collapse_subj
    /\ args.D.shape[3] >= 3
    /\ \E x \in DOMAIN result.stat.val :
           /\ result.stat.val[x] # NaN
           /\ result.stat.val[x] < 0

\* C3: the real statistic array is written only in round p = 0 and only
\* before the first application of the phase randomizer; a round-0 result
\* never goes to the null summary.
C3_RealWritesOnlyInRoundZero ==
    /\ \A i \in DOMAIN hist :
           hist[i].op = "loo" =>
               /\ hist[i].target = "real" =>
                      /\ hist[i].p = 0
                      /\ \A j \in 1 .. (i - 1) : hist[j].op # "rand"
               /\ hist[i].target = "null" => hist[i].p >= 1
    /\ (\A i \in DOMAIN hist : hist[i].p = 0) =>
           (max_null.val = <<>> /\ min_null.val = <<>>)

C3_Witness ==
    /\ pc = "finish"
    /\ n_subj >= 2
    /\ Len(hist) = n_subj + 1
    /\ hist[1].target = "real"
    /\ hist[n_subj].target = "real"
    /\ hist[n_subj + 1].op = "rand"
    /\ args.fn = "isc"
    /\ \A s \in Idx(n_subj) : \E v \in Idx(n_vox) : ISC.val[<<v, s>>] # 0

C5_InvalidArgsRaiseBeforeLoop ==
    (InCall /\ ~ValidArgs)
        => /\ pc \in {"setup", "raised"}
           /\ hist = <<>>
           /\ ISC = None
           /\ ISFC = None

\* C6: with return_p=True the call reaches the p-value estimator with null
\* summaries of length num_perm, max_null[k-1] the maximum and min_null[k-1]
\* the minimum of the statistic maps of round k over all left-out subjects,
\* every [subject, permutation] cell written exactly once before.
C6_NullSummaryAtEstimator ==
    (Ended /\ args.return_p /\ ValidArgs /\ args.num_perm >= 1)
        => LET ns == args.D.shape[3]
               RoundVals(k) ==
                   LET Dk == RandIter(args.D, args.random_state, genAtCall, k).D
                   IN  UNION {LET t == IF args.fn = "isc"
                                       THEN LooISC(Dk, ns, s, args.float_type).tmp
                                       ELSE LooISFC(Dk, ns, s, args.float_type).tmp
                              IN  {t.val[x] : x \in DOMAIN t.val} : s \in Idx(ns)}
               cells == {<<k>> : k \in Idx(args.num_perm)}
           IN  /\ pc = "returned"
               /\ result.has_p
               /\ max_null.val = [x \in cells |-> MaxFix(RoundVals(x[1] + 1))]
               /\ min_null.val = [x \in cells |-> MinFix(RoundVals(x[1] + 1))]
               /\ \A s \in Idx(ns), k \in 1 .. args.num_perm :
                      Cardinality({i \in DOMAIN hist :
                                      /\ hist[i].target = "null"
                                      /\ hist[i].loo = s
                                      /\ hist[i].p = k}) = 1

\* The index x with its two voxel axes exchanged.
Swap(x) == <<x[2], x[1]>> \o SubSeq(x, 3, Len(x))

\* C7: the statistic isfc returns is symmetric in its two voxel axes, in
\* every subject slice and in the subject average: the entries at [i, j] and
\* [j, i] are the same number, or both NaN.
C7_IsfcSymmetric ==
    (pc = "returned" /\ args.fn = "isfc")
        => \A x \in DOMAIN result.stat.val :
               result.stat.val[x] = result.stat.val[Swap(x)]

C7_Witness ==
    /\ pc = "returned"
    /\ args.fn = "isfc"
    /\ args.D.shape[1] >= 2
    /\ args.D.shape[3] >= 2
    /\ \E s \in Idx(args.D.shape[3]) :
           /\ OthersCorr(args.D, 0, 1, s) # NaN
           /\ OthersCorr(args.D, 1, 0, s) # NaN
           /\ OthersCorr(args.D, 0, 1, s) # OthersCorr(args.D, 1, 0, s)

\* C8: isc with return_p=False runs the real-data round only, never applies
\* the phase randomizer and leaves the random source as it was; a second call
\* with the same arguments returns the same result.
C8_NoRandomizationWithoutP ==
    (InCall /\ args.fn = "isc" /\ ~args.return_p /\ ValidArgs)
        => /\ \A i \in DOMAIN hist : hist[i].op = "loo" /\ hist[i].p = 0
           /\ gen = genAtCall
           /\ (pc = "returned" /\ ncalls = 1) => result = prev.result

\* C9: every array allocated during a call has element type float_type: the
\* statistic array, the per-subject statistic, the group average, the
\* randomized tensor and the null summaries.
C9_AllArraysFloatType ==
    (InCall /\ ValidArgs)
        => /\ \A a \in {ISC, ISFC, tmp_ISC, tmp_ISFC, max_null, min_null} :
                  a # None => a.dtype = args.float_type
           /\ group # NoGroup => group.dtype = args.float_type
           /\ (\E i \in DOMAIN hist : hist[i].op = "rand") =>
                  D.dtype = args.float_type

\* C10: the local random_state stays the caller's argument throughout the
\* call, and every invocation of the phase randomizer receives exactly it.
C10_RandomStatePassedUnchanged ==
    /\ InCall => random_state = args.random_state
    /\ \A i \in DOMAIN hist :
           hist[i].op = "rand" => hist[i].rs = args.random_state

C10_Witness ==
    /\ args.random_state = Seed(0)
    /\ \E i \in DOMAIN hist : hist[i].op = "rand" /\ hist[i].rs = Seed(0)

====
